---------------------------- MODULE Spec2Model ----------------------------
(***************************************************************************)
(* Model of stocks.py: Trade, Stock, Stocks and the command-line Interface *)
(* (record a trade, display the market).                                   *)
(*                                                                         *)
(* Time is counted in minutes.  Every read of datetime.now() is a read of  *)
(* the variable now, which the environment advances (Tick) between any two *)
(* reads.  Numbers are Python floats abstracted to exact rationals plus    *)
(* the special value nan; an operation that raises yields an error value.  *)
(* Raw answers typed at a prompt are sequences of one-character strings.   *)
(***************************************************************************)
EXTENDS Integers, Sequences, FiniteSets, TLC

VARIABLES
    stocks,   \* Interface.stocks: the Stocks list, a sequence of Stock records
    now,      \* the wall clock read by datetime.now()
    pc,       \* position of the program: "menu", a step of show_market, "crashed"
    row,      \* show_market: index of the stock whose row is being printed
    last      \* the last call made on the core and what it returned or raised

vars == <<stocks, now, pc, row, last>>

---------------------------------------------------------------------------
(* Bounds of the model *)

\* Stocks in the market, trades recorded in the whole program, trades
\* recorded where only the window or only the valuation is exercised, and
\* minutes the clock advances.
MaxStocks == 2
MaxTrades == 2
MaxWindowTrades == 3
MaxPriceTrades == 2
MaxTicks == 1

---------------------------------------------------------------------------
(* Program constants *)

COMMON == "Common"
PREFERRED == "Preferred"

\* timedelta(minutes=15)
Window == 15

\* The clock when the program starts: late enough for a typed date to be old.
Now0 == Window + 1
MaxNow == Now0 + MaxTicks

---------------------------------------------------------------------------
(* Numbers: exact rationals, nan, and raised exceptions *)

Abs(x) == IF x < 0 THEN -x ELSE x

RECURSIVE GCD(_, _)
GCD(a, b) == IF b = 0 THEN a ELSE GCD(b, a % b)

\* The rational n/d in lowest terms with a positive denominator.
Fin(n, d) ==
    LET g == GCD(Abs(n), Abs(d))
        s == IF d < 0 THEN -1 ELSE 1
    IN [k |-> "fin", n |-> (s * n) \div g, d |-> (s * d) \div g, r |-> 1]

NaN == [k |-> "nan", n |-> 0, d |-> 1, r |-> 1]

\* A raised exception, named by its Python class.
Raise(e) == [k |-> e, n |-> 0, d |-> 1, r |-> 1]

\* The r-th root of n/d when it is not rational.
Surd(n, d, r) == [k |-> "root", n |-> n, d |-> d, r |-> r]

IsErr(v) == v.k \notin {"fin", "nan", "root"}
IsZero(v) == v.k = "fin" /\ v.n = 0

\* float * float, int * float
FMul(a, b) ==
    IF a.k = "nan" \/ b.k = "nan" THEN NaN
    ELSE Fin(a.n * b.n, a.d * b.d)

\* float + float
FAdd(a, b) ==
    IF a.k = "nan" \/ b.k = "nan" THEN NaN
    ELSE Fin(a.n * b.d + b.n * a.d, a.d * b.d)

\* a / b under "from __future__ import division": a zero divisor raises
\* ZeroDivisionError whatever the dividend is (nan / 0 raises too).
FDiv(a, b) ==
    IF IsZero(b) THEN Raise("ZeroDivisionError")
    ELSE IF a.k = "nan" \/ b.k = "nan" THEN NaN
    ELSE Fin(a.n * b.d, a.d * b.n)

RECURSIVE IntPow(_, _)
IntPow(x, e) == IF e = 0 THEN 1 ELSE x * IntPow(x, e - 1)

HasRoot(x, r) == \E y \in 0..x : IntPow(y, r) = x
IRoot(x, r) == CHOOSE y \in 0..x : IntPow(y, r) = x

\* x ** (1 / nn) in Python 2.7: x ** 1.0 is x; nan stays nan; 0 stays 0; a
\* negative base with a fractional exponent raises ValueError.
FPowInv(x, nn) ==
    IF nn = 1 THEN x
    ELSE IF x.k = "nan" THEN NaN
    ELSE IF x.n = 0 THEN Fin(0, 1)
    ELSE IF x.n < 0 THEN Raise("ValueError")
    ELSE IF HasRoot(x.n, nn) /\ HasRoot(x.d, nn)
         THEN Fin(IRoot(x.n, nn), IRoot(x.d, nn))
    ELSE Surd(x.n, x.d, nn)

---------------------------------------------------------------------------
(* Parsing of the answers typed at the prompts *)

Digits == {"0", "1", "2", "3", "4", "5", "6", "7", "8", "9"}

DigitVal(c) ==
    CASE c = "0" -> 0 [] c = "1" -> 1 [] c = "2" -> 2 [] c = "3" -> 3
      [] c = "4" -> 4 [] c = "5" -> 5 [] c = "6" -> 6 [] c = "7" -> 7
      [] c = "8" -> 8 [] c = "9" -> 9

\* str.isdigit(): non-empty and every character a digit
isdigit(s) == Len(s) > 0 /\ \A i \in 1..Len(s) : s[i] \in Digits

\* int(s) of a string of digits
RECURSIVE int(_)
int(s) ==
    IF Len(s) = 0 THEN 0
    ELSE 10 * int(SubSeq(s, 1, Len(s) - 1)) + DigitVal(s[Len(s)])

\* float(s) on the strings the model types: an optional sign followed by digits
\* or by the word nan; anything else raises ValueError.
float(s) ==
    LET signed == Len(s) > 0 /\ s[1] \in {"-", "+"}
        body == IF signed THEN SubSeq(s, 2, Len(s)) ELSE s
        sign == IF signed /\ s[1] = "-" THEN -1 ELSE 1
    IN IF isdigit(body) THEN Fin(sign * int(body), 1)
       ELSE IF body = <<"n", "a", "n">> THEN NaN
       ELSE Raise("ValueError")

\* An answer to the timestamp prompt: ENTER, a well-formed date (the minute it
\* denotes), or a string strptime rejects.
Enter == [kind |-> "enter", t |-> 0]
Date(t) == [kind |-> "date", t |-> t]
Garbage == [kind |-> "garbage", t |-> 0]

---------------------------------------------------------------------------
(* Trade *)

\* Trade(**kw): the four attributes are set from the keyword arguments as given.
Trade(timestamp, quantity, direction, price) ==
    [timestamp |-> timestamp, quantity |-> quantity,
     direction |-> direction, price |-> price]

---------------------------------------------------------------------------
(* Stock *)

\* Stock(**kw): the attributes given, an empty list of trades.
Stock(kw) ==
    [symbol |-> kw.symbol, type |-> kw.type, last_dividend |-> kw.last_dividend,
     fixed_dividend |-> kw.fixed_dividend, par_value |-> kw.par_value,
     trades |-> <<>>]

\* The assertion of Stock.__init__ on the type.
StockTypeOk(kw) == kw.type \in {COMMON, PREFERRED}

\* recent_trades with a strict comparison: a trade exactly 15 minutes old is lost.
recent_trades_strict(s, t) ==
    LET _threshold == t - Window
        _key(_trade) == _trade.timestamp > _threshold
    IN SelectSeq(s.trades, _key)

\* Stock.recent_trades with the clock reading t.
recent_trades(s, t) ==
    LET _threshold == t - Window
        _key(_trade) == _trade.timestamp >= _threshold
    IN SelectSeq(s.trades, _key)

RECURSIVE SumQuantity(_)
SumQuantity(ts) ==
    IF ts = <<>> THEN 0 ELSE ts[1].quantity + SumQuantity(Tail(ts))

RECURSIVE SumPrice(_, _)
SumPrice(acc, ts) ==
    IF ts = <<>> THEN acc
    ELSE SumPrice(FAdd(acc, FMul(Fin(ts[1].quantity, 1), ts[1].price)), Tail(ts))

\* Stock.price with the clock reading t.
price(s, t) ==
    LET _recent_trades == recent_trades(s, t)
        _total_quantity == SumQuantity(_recent_trades)
        _total_price == SumPrice(Fin(0, 1), _recent_trades)
    IN IF IsZero(_total_price) THEN Fin(0, 1)
       ELSE FDiv(_total_price, Fin(_total_quantity, 1))

\* dividend_yield with a floor of 0 at a zero price, as price has for a zero
\* notional.
dividend_yield_floor(s, t) ==
    LET p == price(s, t)
    IN IF IsErr(p) THEN p
       ELSE IF IsZero(p) THEN Fin(0, 1)
       ELSE IF s.type = COMMON THEN FDiv(Fin(s.last_dividend, 1), p)
       ELSE FDiv(FMul(s.fixed_dividend, Fin(s.par_value, 1)), p)

\* dividend_yield with the branches of the two stock types exchanged.
dividend_yield_swapped(s, t) ==
    LET p == price(s, t)
    IN IF IsErr(p) THEN p
       ELSE IF s.type = PREFERRED THEN FDiv(Fin(s.last_dividend, 1), p)
       ELSE FDiv(FMul(s.fixed_dividend, Fin(s.par_value, 1)), p)

\* Stock.dividend_yield with the clock reading t.
dividend_yield(s, t) ==
    LET p == price(s, t)
    IN IF IsErr(p) THEN p
       ELSE IF s.type = COMMON THEN FDiv(Fin(s.last_dividend, 1), p)
       ELSE FDiv(FMul(s.fixed_dividend, Fin(s.par_value, 1)), p)

\* Stock.PE_ratio: dividend_yield reads the clock (t1), then price reads it
\* again (t2).
PE_ratio(s, t1, t2) ==
    LET dy == dividend_yield(s, t1)
        p == price(s, t2)
    IN IF IsErr(dy) THEN dy
       ELSE IF IsErr(p) THEN p
       ELSE FDiv(dy, p)

\* trade with the Trade inserted at the front of the list.
Stock_trade_front(s, tr) == [s EXCEPT !.trades = <<tr>> \o @]

\* Stock.trade: a Trade appended to the list.
Stock_trade(s, tr) == [s EXCEPT !.trades = Append(@, tr)]

---------------------------------------------------------------------------
(* Stocks *)

\* Stocks.add: a Stock appended to the list.
Stocks_add(S, kw) == Append(S, Stock(kw))

\* Stocks.get: the index of the first stock with the symbol, 0 when the loop
\* ends without one (ValueError).
Stocks_get(S, symbol) ==
    IF \E i \in 1..Len(S) : S[i].symbol = symbol
    THEN CHOOSE i \in 1..Len(S) :
            /\ S[i].symbol = symbol
            /\ \A j \in 1..(i - 1) : S[j].symbol # symbol
    ELSE 0

RECURSIVE Product(_)
Product(ps) ==
    IF Len(ps) = 1 THEN ps[1]
    ELSE FMul(Product(SubSeq(ps, 1, Len(ps) - 1)), ps[Len(ps)])

\* GBCE_share_index with reduce given the initial value 1 and the root taken
\* only of a non-empty list: the empty market has index 1.
GBCE_share_index_initial(S, rd) ==
    LET _nn == Len(S)
        prices == [i \in 1.._nn |-> price(S[i], rd[i])]
        bad == {i \in 1.._nn : IsErr(prices[i])}
    IN IF _nn = 0 THEN Fin(1, 1)
       ELSE IF bad # {} THEN prices[CHOOSE i \in bad : \A j \in bad : i <= j]
       ELSE FPowInv(Product(prices), _nn)

\* Stocks.GBCE_share_index; rd[i] is the clock reading of the i-th stock's price.
GBCE_share_index(S, rd) ==
    LET _nn == Len(S)
        prices == [i \in 1.._nn |-> price(S[i], rd[i])]
        bad == {i \in 1.._nn : IsErr(prices[i])}
    IN IF _nn = 0 THEN Raise("TypeError")
       ELSE IF bad # {} THEN prices[CHOOSE i \in bad : \A j \in bad : i <= j]
       ELSE FPowInv(Product(prices), _nn)


---------------------------------------------------------------------------
(* Inputs: the keyword arguments given to Stocks.add and the answers typed *)

Pct(n) == Fin(n, 100)

\* The stocks of the __main__ block (TEA, POP, GIN) and one of an unknown type.
StockSpecs ==
    { [symbol |-> "TEA", type |-> COMMON, last_dividend |-> 0,
       fixed_dividend |-> Pct(0), par_value |-> 100],
      [symbol |-> "POP", type |-> COMMON, last_dividend |-> 8,
       fixed_dividend |-> Pct(0), par_value |-> 100],
      [symbol |-> "GIN", type |-> PREFERRED, last_dividend |-> 8,
       fixed_dividend |-> Pct(2), par_value |-> 100],
      [symbol |-> "BAD", type |-> "", last_dividend |-> 0,
       fixed_dividend |-> Pct(0), par_value |-> 100] }

\* Those a Stock can be made of.
ValidStockSpecs == {kw \in StockSpecs : StockTypeOk(kw)}

\* Answers typed at the prompts of Interface.trade().  Each set holds answers
\* the prompt accepts and answers it rejects.
SymbolAnswers == {"TEA", "POP", "GIN", "XXX"}

\* The program as a whole: default and typed timestamps, both directions.
TimestampAnswers == {Enter, Date(1), Garbage}
DirectionAnswers == {"b", "s", "x"}
QuantityAnswers == {<<"1">>, <<"-", "1">>, <<>>}
PriceAnswers == {<<"0">>, <<"4">>, <<"n", "a", "n">>, <<"x">>}

\* The ledgers: stocks of both types and one of an unknown type, trades
\* recorded at the current time.
LedgerStockSpecs == {kw \in StockSpecs : kw.symbol \in {"TEA", "GIN", "BAD"}}
LedgerTimestampAnswers == {Enter, Garbage}
LedgerDirectionAnswers == {"b", "x"}
LedgerQuantityAnswers == {<<"1">>, <<>>}
LedgerPriceAnswers == {<<"4">>, <<"x">>}

\* The window of recent trades: timestamps 14, 15 and 16 minutes old and new
\* ones, in any order of recording.
WindowTimestampAnswers == {Enter, Date(1), Date(2), Garbage}
WindowDirectionAnswers == {"b", "x"}
WindowQuantityAnswers == {<<"1">>, <<"-", "1">>}
WindowPriceAnswers == {<<"1">>, <<"4">>, <<"x">>}

\* The valuation: quantities and prices of every sign, nan.
PriceTimestampAnswers == {Date(1), Garbage}
PriceDirectionAnswers == {"s", "x"}
PriceQuantityAnswers == {<<"0">>, <<"1">>, <<"2">>, <<"-", "1">>}
PricePriceAnswers == {<<"0">>, <<"4">>, <<"-", "1">>, <<"n", "a", "n">>, <<"x">>}

---------------------------------------------------------------------------
(* State machine *)

\* What a call returned (val, or list for recent_trades) or raised (val), with
\* the stock it was made on (i) and its first and last clock readings.
Result(op, i, t1, t2, val, list) ==
    [op |-> op, i |-> i, t1 |-> t1, t2 |-> t2, val |-> val, list |-> list]

NoResult == Result("none", 0, 0, 0, Fin(0, 1), <<>>)

RECURSIVE TotalTrades(_)
TotalTrades(S) ==
    IF S = <<>> THEN 0 ELSE Len(S[1].trades) + TotalTrades(Tail(S))

\* Interface(): an empty Stocks list; the program waits at its menu.
Init ==
    /\ stocks = <<>>
    /\ now = Now0
    /\ pc = "menu"
    /\ row = 0
    /\ last = NoResult

\* The clock advances.
Tick ==
    /\ pc # "crashed"
    /\ now < MaxNow
    /\ now' = now + 1
    /\ UNCHANGED <<stocks, pc, row, last>>

\* Stocks.add(**kw)
Add(kw) ==
    /\ pc = "menu"
    /\ IF StockTypeOk(kw)
       THEN /\ stocks' = Stocks_add(stocks, kw)
            /\ last' = NoResult
       ELSE /\ last' = Result("add", 0, now, now, Raise("AssertionError"), <<>>)
            /\ UNCHANGED stocks
    /\ UNCHANGED <<now, pc, row>>

\* Interface.trade(): the answers that end each prompt's loop.  A symbol, a
\* direction, a quantity or a price that fails its test is asked again; a
\* timestamp that strptime rejects reaches the undefined name of the except
\* branch, and the NameError ends the program.
Interface_trade(symbolAns, timestampAns, directionAns, quantityAns, priceAns) ==
    /\ pc = "menu"
    /\ symbolAns \in {stocks[i].symbol : i \in 1..Len(stocks)}
    /\ \/ /\ timestampAns.kind = "garbage"
          /\ pc' = "crashed"
          /\ last' = Result("trade", 0, now, now, Raise("NameError"), <<>>)
          /\ UNCHANGED <<stocks, now, row>>
       \/ /\ timestampAns.kind # "garbage"
          /\ directionAns \in {"b", "s"}
          /\ isdigit(quantityAns)
          /\ ~IsErr(float(priceAns))
          /\ LET _timestamp == IF timestampAns.kind = "enter" THEN now
                                ELSE timestampAns.t
                 _verb == IF directionAns = "b" THEN "BUY" ELSE "SELL"
                 _quantity == int(quantityAns)
                 _price == float(priceAns)
                 i == Stocks_get(stocks, symbolAns)
             IN stocks' = [stocks EXCEPT
                    ![i] = Stock_trade(@, Trade(_timestamp, _quantity, _verb, _price))]
          /\ last' = NoResult
          /\ UNCHANGED <<now, pc, row>>

\* stock.recent_trades
QueryRecentTrades(i) ==
    /\ pc = "menu"
    /\ last' = Result("recent_trades", i, now, now, Fin(0, 1),
                      recent_trades(stocks[i], now))
    /\ UNCHANGED <<stocks, now, pc, row>>

\* stock.price
QueryPrice(i) ==
    /\ pc = "menu"
    /\ last' = Result("price", i, now, now, price(stocks[i], now), <<>>)
    /\ UNCHANGED <<stocks, now, pc, row>>

\* stock.dividend_yield
QueryDividendYield(i) ==
    /\ pc = "menu"
    /\ last' = Result("dividend_yield", i, now, now,
                      dividend_yield(stocks[i], now), <<>>)
    /\ UNCHANGED <<stocks, now, pc, row>>

\* stock.PE_ratio: the clock may advance between its two readings.
QueryPERatio(i) ==
    /\ pc = "menu"
    /\ \E t2 \in now..MaxNow :
          /\ last' = Result("PE_ratio", i, now, t2,
                            PE_ratio(stocks[i], now, t2), <<>>)
          /\ now' = t2
    /\ UNCHANGED <<stocks, pc, row>>

\* The clock readings of one pass over the stocks: the first is now, the
\* later ones never earlier.
Readings(n) ==
    {rd \in [1..n -> now..MaxNow] :
        /\ n > 0 => rd[1] = now
        /\ \A j \in 1..(n - 1) : rd[j] <= rd[j + 1]}

\* stocks.GBCE_share_index
QueryIndex ==
    /\ pc = "menu"
    /\ \E rd \in Readings(Len(stocks)) :
          LET t2 == IF Len(stocks) = 0 THEN now ELSE rd[Len(stocks)]
          IN /\ last' = Result("GBCE_share_index", 0, now, t2,
                               GBCE_share_index(stocks, rd), <<>>)
             /\ now' = t2
    /\ UNCHANGED <<stocks, pc, row>>

\* stocks.get(symbol)
QueryGet(symbol) ==
    /\ pc = "menu"
    /\ LET i == Stocks_get(stocks, symbol)
       IN last' = Result("get", i, now, now,
                         IF i = 0 THEN Raise("ValueError") ELSE Fin(0, 1), <<>>)
    /\ UNCHANGED <<stocks, now, pc, row>>

\* An exception leaves show_market and run(): the program ends.
Crash(i, e) ==
    /\ pc' = "crashed"
    /\ last' = Result("show_market", i, now, now', e, <<>>)
    /\ UNCHANGED <<stocks, row>>

\* show_market: the row printed, on to the next stock or to the index.
NextRow ==
    /\ IF row < Len(stocks)
       THEN pc' = "row" /\ row' = row + 1
       ELSE pc' = "index" /\ row' = 0
    /\ last' = NoResult
    /\ UNCHANGED stocks

\* Interface.show_market() is entered: the header is printed.
show_market ==
    /\ pc = "menu"
    /\ IF Len(stocks) = 0
       THEN pc' = "index" /\ row' = 0
       ELSE pc' = "row" /\ row' = 1
    /\ last' = NoResult
    /\ UNCHANGED <<stocks, now>>

\* show_market: len(_stock.recent_trades) < 1 chooses the placeholder.
ShowRowCheck ==
    /\ pc = "row"
    /\ IF Len(recent_trades(stocks[row], now)) < 1
       THEN NextRow
       ELSE /\ pc' = "dividend_yield"
            /\ last' = NoResult
            /\ UNCHANGED <<stocks, row>>
    /\ UNCHANGED now

\* show_market: _stock.dividend_yield, the first argument of the format.
ShowDividendYield ==
    /\ pc = "dividend_yield"
    /\ UNCHANGED now
    /\ LET v == dividend_yield(stocks[row], now)
       IN IF IsErr(v) THEN Crash(row, v)
          ELSE /\ pc' = "PE_ratio"
               /\ last' = NoResult
               /\ UNCHANGED <<stocks, row>>

\* show_market: _stock.PE_ratio, the second argument.
ShowPERatio ==
    /\ pc = "PE_ratio"
    /\ \E t2 \in now..MaxNow :
          /\ now' = t2
          /\ LET v == PE_ratio(stocks[row], now, t2)
             IN IF IsErr(v) THEN Crash(row, v)
                ELSE /\ pc' = "price"
                     /\ last' = NoResult
                     /\ UNCHANGED <<stocks, row>>

\* show_market: _stock.price, the third argument; the row is printed.
ShowPrice ==
    /\ pc = "price"
    /\ UNCHANGED now
    /\ LET v == price(stocks[row], now)
       IN IF IsErr(v) THEN Crash(row, v) ELSE NextRow

\* show_market: the GBCE index line; back to the menu.
ShowIndex ==
    /\ pc = "index"
    /\ \E rd \in Readings(Len(stocks)) :
          /\ now' = IF Len(stocks) = 0 THEN now ELSE rd[Len(stocks)]
          /\ LET v == GBCE_share_index(stocks, rd)
             IN IF IsErr(v) THEN Crash(0, v)
                ELSE /\ pc' = "menu"
                     /\ last' = NoResult
                     /\ UNCHANGED <<stocks, row>>

Next ==
    \/ Tick
    \/ /\ Len(stocks) < MaxStocks
       /\ \E kw \in StockSpecs : Add(kw)
    \/ /\ TotalTrades(stocks) < MaxTrades
       /\ \E symbolAns \in SymbolAnswers, timestampAns \in TimestampAnswers,
             directionAns \in DirectionAnswers, quantityAns \in QuantityAnswers,
             priceAns \in PriceAnswers :
             Interface_trade(symbolAns, timestampAns, directionAns, quantityAns,
                            priceAns)
    \/ QueryIndex
    \/ show_market
    \/ ShowRowCheck
    \/ ShowDividendYield
    \/ ShowPERatio
    \/ ShowPrice
    \/ ShowIndex

\* The whole program: stocks added, trades recorded, the market displayed.
Spec == Init /\ [][Next]_vars

NextLedger ==
    \/ Tick
    \/ /\ Len(stocks) < MaxStocks
       /\ \E kw \in LedgerStockSpecs : Add(kw)
    \/ /\ TotalTrades(stocks) < MaxTrades
       /\ \E symbolAns \in SymbolAnswers, timestampAns \in LedgerTimestampAnswers,
             directionAns \in LedgerDirectionAnswers,
             quantityAns \in LedgerQuantityAnswers,
             priceAns \in LedgerPriceAnswers :
             Interface_trade(symbolAns, timestampAns, directionAns, quantityAns,
                            priceAns)
    \/ \E i \in 1..Len(stocks) : QueryRecentTrades(i)
    \/ \E i \in 1..Len(stocks) : QueryPrice(i)
    \/ \E i \in 1..Len(stocks) : QueryDividendYield(i)
    \/ \E i \in 1..Len(stocks) : QueryPERatio(i)
    \/ QueryIndex
    \/ \E symbol \in SymbolAnswers : QueryGet(symbol)

\* Stocks added, trades recorded, and every query of the core made.
SpecLedger == Init /\ [][NextLedger]_vars

\* A market that holds one of the stocks of the __main__ block.
InitOneStock ==
    /\ stocks \in {Stocks_add(<<>>, kw) : kw \in ValidStockSpecs}
    /\ now = Now0
    /\ pc = "menu"
    /\ row = 0
    /\ last = NoResult

NextWindow ==
    \/ Tick
    \/ /\ TotalTrades(stocks) < MaxWindowTrades
       /\ \E symbolAns \in SymbolAnswers, timestampAns \in WindowTimestampAnswers,
             directionAns \in WindowDirectionAnswers,
             quantityAns \in WindowQuantityAnswers,
             priceAns \in WindowPriceAnswers :
             Interface_trade(symbolAns, timestampAns, directionAns, quantityAns,
                            priceAns)
    \/ \E i \in 1..Len(stocks) : QueryRecentTrades(i)

\* Trades recorded against one stock and its recent trades asked for.
SpecWindow == InitOneStock /\ [][NextWindow]_vars

NextPrice ==
    \/ Tick
    \/ /\ TotalTrades(stocks) < MaxPriceTrades
       /\ \E symbolAns \in SymbolAnswers, timestampAns \in PriceTimestampAnswers,
             directionAns \in PriceDirectionAnswers,
             quantityAns \in PriceQuantityAnswers, priceAns \in PricePriceAnswers :
             Interface_trade(symbolAns, timestampAns, directionAns, quantityAns,
                            priceAns)
    \/ \E i \in 1..Len(stocks) : QueryPrice(i)
    \/ \E i \in 1..Len(stocks) : QueryDividendYield(i)
    \/ \E i \in 1..Len(stocks) : QueryPERatio(i)

\* Trades recorded against one stock and its valuation asked for.
SpecPrice == InitOneStock /\ [][NextPrice]_vars

---------------------------------------------------------------------------
(* Properties *)

\* The stock the last call was made on.
LastStock == stocks[last.i]

\* C1: recent_trades returns exactly the trades of the ledger whose timestamp
\* is >= as_of - 15 minutes (15 minutes old: included; 16: excluded), in the
\* ledger's order, whatever order the timestamps were recorded in.
C1_RecentTradesIsWindow ==
    last.op = "recent_trades" =>
        LET L == LastStock.trades
            as_of == last.t1
            In == {j \in 1..Len(L) : L[j].timestamp >= as_of - 15}
            Rank(j) == Cardinality({m \in In : m <= j})
        IN /\ Len(last.list) = Cardinality(In)
           /\ \A j \in In : last.list[Rank(j)] = L[j]
           /\ \A j \in 1..Len(L) :
                 /\ L[j].timestamp = as_of - 15 => j \in In
                 /\ L[j].timestamp = as_of - 16 => j \notin In

\* C1 happens: a ledger recorded out of timestamp order, with a trade 16
\* minutes old (left out) and one exactly 15 minutes old (kept).
C1_Witness ==
    /\ last.op = "recent_trades"
    /\ Len(LastStock.trades) = 3
    /\ LastStock.trades[1].timestamp = last.t1
    /\ LastStock.trades[2].timestamp = last.t1 - 16
    /\ LastStock.trades[3].timestamp = last.t1 - 15
    /\ last.list = <<LastStock.trades[1], LastStock.trades[3]>>

\* C2 as claimed: price is 0 when the notional of the window is 0, otherwise
\* notional / quantity, and the quantity is never 0 with a nonzero notional:
\* price never divides by zero.
C2_PriceNeverDividesByZero ==
    last.op = "price" =>
        LET W == recent_trades(LastStock, last.t1)
            notional == SumPrice(Fin(0, 1), W)
            quantity == SumQuantity(W)
        IN IF IsZero(notional) THEN last.val = Fin(0, 1)
           ELSE /\ quantity # 0
                /\ last.val = FDiv(notional, Fin(quantity, 1))
                /\ ~IsErr(last.val)

\* C3: whenever the price is 0 at the clock reading of the call, dividend_yield
\* and PE_ratio raise ZeroDivisionError; they return no number.
C3_ZeroPriceRaises ==
    /\ (last.op \in {"dividend_yield", "PE_ratio"}
            /\ IsZero(price(LastStock, last.t1)))
        => last.val = Raise("ZeroDivisionError")
    /\ (last.op = "PE_ratio" /\ IsZero(price(LastStock, last.t2)))
        => last.val = Raise("ZeroDivisionError")

\* C3 happens: the dividend yield of a stock with a last dividend, asked when
\* every recorded trade has left the window.
C3_Witness ==
    /\ last.op = "dividend_yield"
    /\ LastStock.last_dividend > 0
    /\ LastStock.trades # <<>>
    /\ recent_trades(LastStock, last.t1) = <<>>
    /\ last.val = Raise("ZeroDivisionError")

C5_SymbolsDistinct ==
    \A i, j \in 1..Len(stocks) : i # j => stocks[i].symbol # stocks[j].symbol

\* C6: the share index of a market with no stocks raises; it returns no number.
C6_EmptyIndexFails ==
    (last.op = "GBCE_share_index" /\ Len(stocks) = 0) => IsErr(last.val)

\* C6 happens: the index asked of the empty market raised TypeError.
C6_Witness ==
    /\ last.op = "GBCE_share_index"
    /\ stocks = <<>>
    /\ last.val = Raise("TypeError")

\* C7 as claimed: in a non-empty market of distinct symbols read at one clock
\* value, the share
\* index is 0 when some stock's price is 0, whatever the other prices, and
\* otherwise the n-th root of the product of the prices.
C7_ShareIndex ==
    (/\ last.op = "GBCE_share_index"
     /\ Len(stocks) > 0
     /\ last.t1 = last.t2
     /\ C5_SymbolsDistinct) =>
        LET n == Len(stocks)
            ps == [i \in 1..n |-> price(stocks[i], last.t1)]
        IN IF \E i \in 1..n : IsZero(ps[i]) THEN last.val = Fin(0, 1)
           ELSE /\ ~IsErr(last.val)
                /\ last.val = FPowInv(Product(ps), n)

\* C8 as claimed: printing the rows of the market display never fails with the
\* division by a zero price.
C8_RowsNeverFail ==
    ~(/\ pc = "crashed"
      /\ last.op = "show_market"
      /\ last.i > 0
      /\ last.val = Raise("ZeroDivisionError"))

\* C9 as claimed: every trade of every ledger has quantity > 0, price >= 0 and
\* direction BUY or SELL.
C9_TradesValid ==
    \A i \in 1..Len(stocks) : \A j \in 1..Len(stocks[i].trades) :
        LET tr == stocks[i].trades[j]
        IN /\ tr.quantity > 0
           /\ tr.price.k = "fin" /\ tr.price.n >= 0
           /\ tr.direction \in {"BUY", "SELL"}

QueryOps == {"recent_trades", "price", "dividend_yield", "PE_ratio",
             "GBCE_share_index", "get"}

\* C10: a step changes at most one stock, by one Trade appended at the end of
\* its ledger; the stocks are never removed, replaced or reordered; no query
\* and no step of the display changes any stock; and a trade recorded (a step
\* at the menu that is no query, no tick and no add) does change one.
C10_AppendOnly ==
    [][LET Changed == {i \in 1..Len(stocks) : stocks'[i] # stocks[i]}
       IN /\ Len(stocks') \in {Len(stocks), Len(stocks) + 1}
          /\ Cardinality(Changed) <= 1
          /\ Changed # {} => Len(stocks') = Len(stocks)
          /\ \A i \in Changed :
                /\ Len(stocks'[i].trades) = Len(stocks[i].trades) + 1
                /\ stocks'[i] = [stocks[i] EXCEPT !.trades =
                                    Append(@, stocks'[i].trades[Len(@) + 1])]
          /\ (last'.op \in QueryOps \/ pc # "menu" \/ pc' # "menu")
                => stocks' = stocks
          /\ (/\ pc = "menu" /\ pc' = "menu" /\ now' = now
              /\ last' = NoResult /\ Len(stocks') = Len(stocks))
                => Cardinality(Changed) = 1]_vars

\* C10 happens: two trades recorded against one of two stocks, the later one
\* after the earlier one in the ledger, and a query made since.
C10_Witness ==
    /\ Len(stocks) = 2
    /\ Len(stocks[2].trades) = 2
    /\ stocks[2].trades[1].timestamp < stocks[2].trades[2].timestamp
    /\ stocks[1].trades = <<>>
    /\ last.op = "recent_trades"
    /\ last.i = 2
    /\ last.list = stocks[2].trades

============================================================================
